---- MODULE Spec2Model ----
(***************************************************************************)
(* Model of platforms/c-cuda/config.py: the CUDA platform configuration    *)
(* of antares.  Three functions: get_execution_parallism counts GPU device *)
(* nodes through `ls`, get_compile_kernel_args links kernel_src to         *)
(* kernel_src.cu through `ln -sf` and builds the nvcc command line, and    *)
(* do_native_translation prepends the CUDA includes and attrs.blend to the *)
(* kernel code.                                                            *)
(*                                                                         *)
(* A Python str is modelled as a sequence of one-character strings, so     *)
(* that replace, split, % formatting, shell word splitting and glob        *)
(* matching are computed character by character.  The file system the two  *)
(* shell commands act on is a function from absolute paths (sequences of   *)
(* names) to entries.                                                      *)
(***************************************************************************)
EXTENDS Integers, Sequences, FiniteSets, TLC

VARIABLES
    fs,       \* the file system: absolute path -> entry
    last,     \* the call made last: its function and its arguments
    result,   \* what that call returned, or the exception it raised
    status,   \* exit status of the shell command that call ran (-1: none)
    fs0,      \* history: the file system before the first call
    repeated  \* history: the last call repeated the call before it

vars == <<fs, last, result, status, fs0, repeated>>

(***************************************************************************)
(* String literals of the source.                                          *)
(***************************************************************************)
Includes ==
    <<"#", "i", "n", "c", "l", "u", "d", "e", " ", "<", "c", "u", "d", "a",
    "_", "r", "u", "n", "t", "i", "m", "e", ".", "h", ">", "\n", "#", "i",
    "n", "c", "l", "u", "d", "e", " ", "<", "c", "u", "d", "a", "_", "f",
    "p", "1", "6", ".", "h", ">", "\n", "\n">>
Nvcc ==
    <<"/", "u", "s", "r", "/", "l", "o", "c", "a", "l", "/", "c", "u", "d",
    "a", "/", "b", "i", "n", "/", "n", "v", "c", "c">>
CuSuffix ==
    <<".", "c", "u">>
\* Variants of the listing command: any name after nvidia, exactly one digit,
\* standard error not discarded.
LsCommandAnyName ==
    <<"l", "s", " ", "/", "d", "e", "v", "/", "n", "v", "i", "d", "i", "a",
    "*", " ", "2", ">", "/", "d", "e", "v", "/", "n", "u", "l", "l">>
LsCommandOneDigit ==
    <<"l", "s", " ", "/", "d", "e", "v", "/", "n", "v", "i", "d", "i", "a",
    "[", "0", "-", "9", "]", " ", "2", ">", "/", "d", "e", "v", "/", "n",
    "u", "l", "l">>
LsCommandNoRedirect ==
    <<"l", "s", " ", "/", "d", "e", "v", "/", "n", "v", "i", "d", "i", "a",
    "[", "0", "-", "9", "]", "*">>
LsCommand ==
    <<"l", "s", " ", "/", "d", "e", "v", "/", "n", "v", "i", "d", "i", "a",
    "[", "0", "-", "9", "]", "*", " ", "2", ">", "/", "d", "e", "v", "/",
    "n", "u", "l", "l">>
LnFormat ==
    <<"l", "n", " ", "-", "s", "f", " ", "%", "s", " ", "%", "s", ".", "c",
    "u">>
ArchFormat ==
    <<"a", "r", "c", "h", "=", "c", "o", "m", "p", "u", "t", "e", "_", "%",
    "s", ",", "c", "o", "d", "e", "=", "s", "m", "_", "%", "s">>
Fatbin ==
    <<"-", "-", "f", "a", "t", "b", "i", "n">>
OptO2 ==
    <<"-", "O", "2">>
Gencode ==
    <<"-", "g", "e", "n", "c", "o", "d", "e">>
DashO ==
    <<"-", "o">>

(***************************************************************************)
(* Python str operations.                                                  *)
(***************************************************************************)
Whitespace == {" ", "\n", "\t"}

IsPrefix(p, s) == Len(p) <= Len(s) /\ SubSeq(s, 1, Len(p)) = p

Drop(s, n) == SubSeq(s, n + 1, Len(s))

RECURSIVE Concat(_)
Concat(ss) == IF ss = <<>> THEN <<>> ELSE Head(ss) \o Concat(Tail(ss))

\* s.replace(old, new), old non-empty: every occurrence, left to right.
RECURSIVE Replace(_, _, _)
Replace(s, old, new) ==
    IF Len(s) < Len(old) THEN s
    ELSE IF IsPrefix(old, s) THEN new \o Replace(Drop(s, Len(old)), old, new)
    ELSE <<Head(s)>> \o Replace(Tail(s), old, new)

\* s.replace(old, new, 1): the first occurrence only.
RECURSIVE ReplaceFirst(_, _, _)
ReplaceFirst(s, old, new) ==
    IF Len(s) < Len(old) THEN s
    ELSE IF IsPrefix(old, s) THEN new \o Drop(s, Len(old))
    ELSE <<Head(s)>> \o ReplaceFirst(Tail(s), old, new)

\* s.split(sep) keeping the empty fields, as str.split with a separator does:
\* the scan is at s[i], cur is the field being read, acc the fields read.
RECURSIVE SplitOnFrom(_, _, _, _, _)
SplitOnFrom(s, sep, i, cur, acc) ==
    IF i > Len(s) THEN Append(acc, cur)
    ELSE IF s[i] = sep THEN SplitOnFrom(s, sep, i + 1, <<>>, Append(acc, cur))
    ELSE SplitOnFrom(s, sep, i + 1, Append(cur, s[i]), acc)

SplitOn(s, sep) == SplitOnFrom(s, sep, 1, <<>>, <<>>)

\* s.split(): the maximal runs of non-whitespace characters.
RECURSIVE SplitFrom(_, _, _, _)
SplitFrom(s, i, cur, acc) ==
    IF i > Len(s) THEN IF cur = <<>> THEN acc ELSE Append(acc, cur)
    ELSE IF s[i] \in Whitespace
         THEN SplitFrom(s, i + 1, <<>>, IF cur = <<>> THEN acc ELSE Append(acc, cur))
    ELSE SplitFrom(s, i + 1, Append(cur, s[i]), acc)

Split(s) == SplitFrom(s, 1, <<>>, <<>>)

\* fmt % args, for a format whose only conversions are %s.
RECURSIVE Format(_, _)
Format(fmt, args) ==
    IF fmt = <<>> THEN <<>>
    ELSE IF IsPrefix(<<"%", "s">>, fmt) /\ args # <<>>
         THEN Head(args) \o Format(Drop(fmt, 2), Tail(args))
    ELSE <<Head(fmt)>> \o Format(Tail(fmt), args)

\* s with one trailing newline removed, as subprocess.getoutput returns it.
StripNewline(s) ==
    IF s # <<>> /\ s[Len(s)] = "\n" THEN SubSeq(s, 1, Len(s) - 1) ELSE s

(***************************************************************************)
(* The file system.  A path is a sequence of names from the root; an entry *)
(* is a directory (writable or not), a regular file, a character device or *)
(* a symbolic link holding its target text.                                *)
(***************************************************************************)
Dir(w)      == [kind |-> "dir",  target |-> <<>>, writable |-> w]
File        == [kind |-> "file", target |-> <<>>, writable |-> TRUE]
CharDevice  == [kind |-> "chr",  target |-> <<>>, writable |-> TRUE]
Symlink(t)  == [kind |-> "link", target |-> t,    writable |-> TRUE]

\* The working directory of the process: /w.
Cwd == << <<"w">> >>

IsAbsolute(s) == s # <<>> /\ Head(s) = "/"

Components(s) == SelectSeq(SplitOn(s, "/"), LAMBDA c : c # <<>>)

Parent(p) == IF p = <<>> THEN <<>> ELSE SubSeq(p, 1, Len(p) - 1)

IsDir(f, p) == p \in DOMAIN f /\ f[p].kind = "dir"

NoPath == [ok |-> FALSE, path |-> <<>>]

\* Path resolution from directory cur: symbolic links are followed in every
\* component but the last, and in the last one when follow is set; a relative
\* link target is resolved from the directory that holds the link.  The last
\* component need not exist.  At most 40 links are followed (ELOOP).
RECURSIVE Walk(_, _, _, _, _)
Walk(f, cur, comps, follow, fuel) ==
    IF fuel = 0 THEN NoPath
    ELSE IF comps = <<>> THEN [ok |-> TRUE, path |-> cur]
    ELSE IF ~IsDir(f, cur) THEN NoPath
    ELSE LET c    == Head(comps)
             rest == Tail(comps)
             p    == Append(cur, c)
         IN  IF c = <<".">> THEN Walk(f, cur, rest, follow, fuel)
             ELSE IF c = <<".", ".">> THEN Walk(f, Parent(cur), rest, follow, fuel)
             ELSE IF p \notin DOMAIN f
                  THEN IF rest = <<>> THEN [ok |-> TRUE, path |-> p] ELSE NoPath
             ELSE IF f[p].kind = "link" /\ (rest # <<>> \/ follow)
                  THEN Walk(f, IF IsAbsolute(f[p].target) THEN <<>> ELSE cur,
                            Components(f[p].target) \o rest, follow, fuel - 1)
             ELSE Walk(f, p, rest, follow, fuel)

Resolve(f, s, follow) ==
    IF s = <<>> THEN NoPath
    ELSE Walk(f, IF IsAbsolute(s) THEN <<>> ELSE Cwd, Components(s), follow, 40)

\* lstat(s) succeeds / stat(s) succeeds.
LExists(f, s) == LET r == Resolve(f, s, FALSE) IN r.ok /\ r.path \in DOMAIN f
Exists(f, s)  == LET r == Resolve(f, s, TRUE)  IN r.ok /\ r.path \in DOMAIN f

\* stat(s) names a directory.
IsDirectory(f, s) ==
    LET r == Resolve(f, s, TRUE) IN r.ok /\ IsDir(f, r.path)

Basename(s) ==
    LET cs == Components(s) IN IF cs = <<>> THEN <<>> ELSE cs[Len(cs)]

\* The names in directory p.
Names(f, p) ==
    {q[Len(q)] : q \in {x \in DOMAIN f : Len(x) = Len(p) + 1 /\ Parent(x) = p}}

(***************************************************************************)
(* Character order (ASCII), for glob ranges and for sorted listings.       *)
(***************************************************************************)
Alphabet ==
    <<"\t", "\n", " ", "#", "%", "'", "*", ",", "-", ".", "/",
      "0", "1", "2", "3", "4", "5", "6", "7", "8", "9",
      ":", "<", "=", ">", "O", "[", "]", "_",
      "a", "b", "c", "d", "e", "f", "g", "h", "i", "j", "k", "l", "m",
      "n", "o", "p", "q", "r", "s", "t", "u", "v", "w", "x", "y", "z", "~">>

Rank(c) == CHOOSE i \in 1..Len(Alphabet) : Alphabet[i] = c

RECURSIVE StrLeq(_, _)
StrLeq(a, b) ==
    IF a = <<>> THEN TRUE
    ELSE IF b = <<>> THEN FALSE
    ELSE IF Head(a) = Head(b) THEN StrLeq(Tail(a), Tail(b))
    ELSE Rank(Head(a)) < Rank(Head(b))

RECURSIVE Insert(_, _)
Insert(x, sorted) ==
    IF sorted = <<>> THEN <<x>>
    ELSE IF StrLeq(x, Head(sorted)) THEN <<x>> \o sorted
    ELSE <<Head(sorted)>> \o Insert(x, Tail(sorted))

RECURSIVE Sort(_)
Sort(ss) == IF ss = <<>> THEN <<>> ELSE Insert(Head(ss), Sort(Tail(ss)))

RECURSIVE SortSet(_)
SortSet(S) ==
    IF S = {} THEN <<>>
    ELSE LET x == CHOOSE y \in S : TRUE IN Insert(x, SortSet(S \ {x}))

(***************************************************************************)
(* The shell that subprocess.getoutput and os.system hand the command to:  *)
(* word splitting, the 2> redirection, pathname expansion, and the two     *)
(* utilities the commands name, ls and ln.                                 *)
(***************************************************************************)
LsNoAccess ==
    <<"l", "s", ":", " ", "c", "a", "n", "n", "o", "t", " ", "a", "c", "c",
    "e", "s", "s", " ", "'">>
NoSuchFile ==
    <<"'", ":", " ", "N", "o", " ", "s", "u", "c", "h", " ", "f", "i", "l",
    "e", " ", "o", "r", " ", "d", "i", "r", "e", "c", "t", "o", "r", "y",
    "\n">>
LnFailed ==
    <<"l", "n", ":", " ", "f", "a", "i", "l", "e", "d", " ", "t", "o", " ",
    "c", "r", "e", "a", "t", "e", " ", "s", "y", "m", "b", "o", "l", "i",
    "c", " ", "l", "i", "n", "k", "\n">>
NotFound ==
    <<"s", "h", ":", " ", "c", "o", "m", "m", "a", "n", "d", " ", "n", "o",
    "t", " ", "f", "o", "u", "n", "d", "\n">>
NvidiaPrefix ==
    <<"n", "v", "i", "d", "i", "a">>

\* The end of a bracket expression that opens at pat[1], or 0.
ClassEnd(pat) ==
    IF \E j \in 3..Len(pat) : pat[j] = "]"
    THEN CHOOSE j \in 3..Len(pat) : pat[j] = "]" /\ \A k \in 3..(j - 1) : pat[k] # "]"
    ELSE 0

\* c is in the bracket expression body cls: single characters and a-b ranges.
RECURSIVE InClass(_, _)
InClass(cls, c) ==
    IF cls = <<>> THEN FALSE
    ELSE IF Len(cls) >= 3 /\ cls[2] = "-"
         THEN \/ (Rank(cls[1]) <= Rank(c) /\ Rank(c) <= Rank(cls[3]))
              \/ InClass(Drop(cls, 3), c)
    ELSE cls[1] = c \/ InClass(Tail(cls), c)

\* fnmatch(pat, s): * is any string, ? any character, [...] one of a class.
RECURSIVE GlobMatch(_, _)
GlobMatch(pat, s) ==
    IF pat = <<>> THEN s = <<>>
    ELSE IF Head(pat) = "*"
         THEN GlobMatch(Tail(pat), s) \/ (s # <<>> /\ GlobMatch(pat, Tail(s)))
    ELSE IF s = <<>> THEN FALSE
    ELSE IF Head(pat) = "?" THEN GlobMatch(Tail(pat), Tail(s))
    ELSE IF Head(pat) = "[" /\ ClassEnd(pat) # 0
         THEN /\ InClass(SubSeq(pat, 2, ClassEnd(pat) - 1), Head(s))
              /\ GlobMatch(Drop(pat, ClassEnd(pat)), Tail(s))
    ELSE Head(pat) = Head(s) /\ GlobMatch(Tail(pat), Tail(s))

HasGlob(w) == \E i \in 1..Len(w) : w[i] \in {"*", "?", "["}

\* The index of the last "/" of w, or 0.
LastSlash(w) ==
    IF \E i \in 1..Len(w) : w[i] = "/"
    THEN CHOOSE i \in 1..Len(w) : w[i] = "/" /\ \A k \in (i + 1)..Len(w) : w[k] # "/"
    ELSE 0

\* The directory a pattern is matched in: the working directory for a word
\* without a directory part.
GlobDir(f, dir) ==
    IF dir = <<>> THEN [ok |-> TRUE, path |-> Cwd] ELSE Resolve(f, dir, TRUE)

\* The names of directory `at` that match pat; a leading '.' must be matched
\* by a '.' of the pattern.
Matches(f, at, pat) ==
    IF at.ok /\ IsDir(f, at.path)
    THEN {n \in Names(f, at.path) :
             GlobMatch(pat, n) /\ (Head(n) = "." => Head(pat) = ".")}
    ELSE {}

\* The word itself when nothing matched, else the matches with the directory
\* part of the word before each.
Expanded(w, dir, list) ==
    IF list = <<>> THEN <<w>> ELSE [i \in 1..Len(list) |-> dir \o list[i]]

\* Pathname expansion of one word whose pattern is in its last component: the
\* matching names of the directory, sorted; the word itself when none matches.
Glob(f, w) ==
    IF ~HasGlob(w) THEN <<w>>
    ELSE Expanded(w, SubSeq(w, 1, LastSlash(w)),
                  SortSet(Matches(f, GlobDir(f, SubSeq(w, 1, LastSlash(w))),
                                  Drop(w, LastSlash(w)))))

RECURSIVE GlobAll(_, _)
GlobAll(f, ws) ==
    IF ws = <<>> THEN <<>> ELSE Glob(f, Head(ws)) \o GlobAll(f, Tail(ws))

IsOption(w) == Len(w) >= 2 /\ Head(w) = "-"

Operands(args) == SelectSeq(args, LAMBDA w : ~IsOption(w))

HasFlag(args, c) ==
    \E i \in 1..Len(args) :
        IsOption(args[i]) /\ \E j \in 2..Len(args[i]) : args[i][j] = c

Lines(ss) == Concat([i \in 1..Len(ss) |-> ss[i] \o <<"\n">>])

\* The listing of directory operand i of dirs; a heading when ls has several
\* operands, a blank line between blocks.
LsBlock(f, dirs, i, first, many) ==
    (IF first /\ i = 1 THEN <<>> ELSE <<"\n">>)
    \o (IF many THEN dirs[i] \o <<":", "\n">> ELSE <<>>)
    \o Lines(SortSet({n \in Names(f, Resolve(f, dirs[i], TRUE).path) :
                         Head(n) # "."}))

\* What ls finds at operand w: nothing (lstat fails), a directory (a symbolic
\* link to one included: operands are followed), or anything else.
LsKind(f, w) ==
    IF ~LExists(f, w) THEN "gone"
    ELSE IF IsDirectory(f, w) THEN "dir" ELSE "file"

\* The elements of ss whose kind in kinds is k, in order.
RECURSIVE OfKind(_, _, _, _)
OfKind(ss, kinds, k, i) ==
    IF i > Len(ss) THEN <<>>
    ELSE (IF kinds[i] = k THEN <<ss[i]>> ELSE <<>>) \o OfKind(ss, kinds, k, i + 1)

\* What ls writes: one line per operand that is not a directory, then the
\* listing of each directory; an operand that does not exist is reported on
\* standard error and makes the exit status 2.
LsPrinted(f, many, gone, files, dirs) ==
    [status |-> IF gone = <<>> THEN 0 ELSE 2,
     out    |-> Lines(files)
                \o Concat([i \in 1..Len(dirs) |->
                              LsBlock(f, dirs, i, files = <<>>, many)]),
     err    |-> Concat([i \in 1..Len(gone) |-> LsNoAccess \o gone[i] \o NoSuchFile]),
     fs     |-> f]

LsReport(f, ops, kinds) ==
    LsPrinted(f, Len(ops) > 1, OfKind(ops, kinds, "gone", 1),
              OfKind(ops, kinds, "file", 1), OfKind(ops, kinds, "dir", 1))

LsSorted(f, ops) == LsReport(f, ops, [i \in 1..Len(ops) |-> LsKind(f, ops[i])])

\* ls operand...: the operands in sorted order; the working directory when
\* there is none.
LsOperands(ops) == IF ops = <<>> THEN << <<".">> >> ELSE ops

Ls(f, args) == LsSorted(f, Sort(LsOperands(Operands(args))))

\* A variant of MakeLink that keeps what it replaces: the existing entry is
\* moved to the same name with ~ appended (ln --backup).
MakeLinkBackup(f, t, at, force) ==
    IF \/ ~at.ok
       \/ at.path = <<>>
       \/ ~IsDir(f, Parent(at.path))
       \/ ~f[Parent(at.path)].writable
       \/ (at.path \in DOMAIN f /\ (~force \/ f[at.path].kind = "dir"))
    THEN [ok |-> FALSE, fs |-> f]
    ELSE LET kept == Append(Parent(at.path), at.path[Len(at.path)] \o <<"~">>)
             new  == IF at.path \in DOMAIN f THEN {at.path, kept} ELSE {at.path}
         IN  [ok |-> TRUE,
              fs |-> [q \in DOMAIN f \cup new |->
                         IF q = at.path THEN Symlink(t)
                         ELSE IF q = kept /\ at.path \in DOMAIN f THEN f[at.path]
                         ELSE f[q]]]

\* symlink(t, at): the link is made at the resolved place `at` (the last
\* component not followed).  The directory must exist and be writable; with
\* force an existing entry that is not a directory is removed first.
MakeLink(f, t, at, force) ==
    IF \/ ~at.ok
       \/ at.path = <<>>
       \/ ~IsDir(f, Parent(at.path))
       \/ ~f[Parent(at.path)].writable
       \/ (at.path \in DOMAIN f /\ (~force \/ f[at.path].kind = "dir"))
    THEN [ok |-> FALSE, fs |-> f]
    ELSE [ok |-> TRUE,
          fs |-> [q \in DOMAIN f \cup {at.path} |->
                     IF q = at.path THEN Symlink(t) ELSE f[q]]]

Failed(f) == [ok |-> FALSE, fs |-> f]

Both(one, more) == [ok |-> one.ok /\ more.ok, fs |-> more.fs]

\* Each target of ts linked under its own base name into directory dir; a
\* failure does not stop the links after it.
RECURSIVE LinkInto(_, _, _, _)
LinkRest(one, ts, dir, force) == Both(one, LinkInto(one.fs, ts, dir, force))

LinkInto(f, ts, dir, force) ==
    IF ts = <<>> THEN [ok |-> TRUE, fs |-> f]
    ELSE LinkRest(MakeLink(f, Head(ts),
                           [ok   |-> Basename(Head(ts)) # <<>>,
                            path |-> Append(dir, Basename(Head(ts)))],
                           force),
                  Tail(ts), dir, force)

\* ln -s [-f] target... dest.  With a last operand that is a directory
\* (symbolic links to one included) the links are made inside it; with two
\* operands otherwise the link is dest itself; one operand is linked into the
\* working directory.  Hard links (no -s) are not modelled: they fail.
LnLinks(f, ops, symbolic, force) ==
    IF Len(ops) = 0 \/ ~symbolic THEN Failed(f)
    ELSE IF Len(ops) = 1 THEN LinkInto(f, ops, Cwd, force)
    ELSE IF IsDirectory(f, ops[Len(ops)])
         THEN LinkInto(f, SubSeq(ops, 1, Len(ops) - 1),
                       Resolve(f, ops[Len(ops)], TRUE).path, force)
    ELSE IF Len(ops) = 2
         THEN MakeLink(f, ops[1], Resolve(f, ops[2], FALSE), force)
    ELSE Failed(f)

LnReport(done) ==
    [status |-> IF done.ok THEN 0 ELSE 1,
     out    |-> <<>>,
     err    |-> IF done.ok THEN <<>> ELSE LnFailed,
     fs     |-> done.fs]

Ln(f, args) ==
    LnReport(LnLinks(f, Operands(args), HasFlag(args, "s"), HasFlag(args, "f")))

IsErrRedirect(w) == IsPrefix(<<"2", ">">>, w)

IsArgument(w) == ~IsErrRedirect(w)

\* The utility argv names, run.
Run(f, argv) ==
    IF argv = <<>> THEN [status |-> 0, out |-> <<>>, err |-> <<>>, fs |-> f]
    ELSE IF Head(argv) = <<"l", "s">> THEN Ls(f, Tail(argv))
    ELSE IF Head(argv) = <<"l", "n">> THEN Ln(f, Tail(argv))
    ELSE [status |-> 127, out |-> <<>>, err |-> NotFound, fs |-> f]

\* 2>/dev/null: what the utility wrote on standard error is dropped.
Redirected(run, discard) == [run EXCEPT !.err = IF discard THEN <<>> ELSE @]

\* sh -c cmd: the words of cmd, the standard-error redirection taken out and
\* applied, every other word expanded, and the utility run.
ShWords(f, words) ==
    Redirected(Run(f, GlobAll(f, SelectSeq(words, IsArgument))),
               SelectSeq(words, IsErrRedirect) # <<>>)

Sh(f, cmd) == ShWords(f, Split(cmd))

\* subprocess.getoutput(cmd): standard output and standard error of the
\* command in one string, a trailing newline stripped; the status is dropped.
Captured(r) == [text |-> StripNewline(r.out \o r.err), fs |-> r.fs]

GetOutput(f, cmd) == Captured(Sh(f, cmd))

\* The outcome of a command whose status is only returned / is checked.
ExitIgnored(r) == [status |-> r.status, raised |-> FALSE, fs |-> r.fs]
ExitChecked(r) == [status |-> r.status, raised |-> r.status # 0, fs |-> r.fs]

\* A variant of System that raises for a non-zero status, as
\* subprocess.check_call does.
SystemChecked(f, cmd) == ExitChecked(Sh(f, cmd))

\* os.system(cmd): the command's streams are not captured; the exit status
\* is the return value and no exception is raised for a non-zero one.
System(f, cmd) == ExitIgnored(Sh(f, cmd))

(***************************************************************************)
(* The three functions of config.py.                                       *)
(***************************************************************************)
Returned(v) == [raised |-> FALSE, value |-> v]
Raised(e)   == [raised |-> TRUE,  value |-> e]

\* len(output.split())
Counted(r) ==
    [result |-> Returned(Len(Split(r.text))), status |-> -1, fs |-> r.fs]

\* get_execution_parallism()
GetExecutionParallism(f) == Counted(GetOutput(f, LsCommand))

\* A variant of CodeArch that drops the first '.' only.
CodeArchFirstDot(device_props) ==
    ReplaceFirst(device_props.compute_version, <<".">>, <<>>)

\* code_arch = device_props.compute_version.replace('.', '')
CodeArch(device_props) == Replace(device_props.compute_version, <<".">>, <<>>)

\* A variant of LinkCommand with the operands of ln the other way round.
LnFormatSwapped ==
    <<"l", "n", " ", "-", "s", "f", " ", "%", "s", ".", "c", "u", " ", "%",
    "s">>

LinkCommandSwapped(kernel_src) == Format(LnFormatSwapped, <<kernel_src, kernel_src>>)

\* 'ln -sf %s %s.cu' % (kernel_src, kernel_src)
LinkCommand(kernel_src) == Format(LnFormat, <<kernel_src, kernel_src>>)

\* A variant of KernelArgs that names kernel_src itself as the compiler input.
KernelArgsNoSuffix(kernel_src, kernel_out, device_props) ==
    <<Nvcc, kernel_src, Fatbin, OptO2, Gencode,
      Format(ArchFormat, <<CodeArch(device_props), CodeArch(device_props)>>),
      DashO, kernel_out>>

\* The list get_compile_kernel_args returns.
KernelArgs(kernel_src, kernel_out, device_props) ==
    <<Nvcc, kernel_src \o CuSuffix, Fatbin, OptO2, Gencode,
      Format(ArchFormat, <<CodeArch(device_props), CodeArch(device_props)>>),
      DashO, kernel_out>>

\* A variant of DoNativeTranslation without the newline after attrs.blend.
DoNativeTranslationNoNewline(code, kwargs) ==
    IF "attrs" \notin DOMAIN kwargs THEN Raised("KeyError")
    ELSE Returned(Includes \o kwargs["attrs"].blend \o code)

\* do_native_translation(code, **kwargs)
DoNativeTranslation(code, kwargs) ==
    IF "attrs" \notin DOMAIN kwargs THEN Raised("KeyError")
    ELSE Returned(Includes \o kwargs["attrs"].blend \o <<"\n">> \o code)

(***************************************************************************)
(* The states and the calls explored.                                      *)
(***************************************************************************)
\* GPU device nodes /dev/nvidia0 .. /dev/nvidia<MaxDevices - 1> may exist.
MaxDevices == 2

SrcAbsolute ==
    <<"/", "w", "/", "k">>
SrcPlain ==
    <<"k">>
SrcInDir ==
    <<"d", "/", "k">>
SrcReadOnly ==
    <<"/", "r", "/", "k">>
SrcGpuNode ==
    <<"/", "d", "e", "v", "/", "n", "v", "i", "d", "i", "a", "0">>
SrcCtlNode ==
    <<"/", "d", "e", "v", "/", "n", "v", "i", "d", "i", "a", "c", "t", "l">>
SrcSpaced ==
    <<"k", " ", "x">>
OutAbsolute ==
    <<"/", "w", "/", "o", "u", "t", ".", "f", "a", "t", "b", "i", "n">>
OutPlain ==
    <<"o">>
NvidiaCtl ==
    <<"n", "v", "i", "d", "i", "a", "c", "t", "l">>
NvidiaUvm ==
    <<"n", "v", "i", "d", "i", "a", "-", "u", "v", "m">>
NvidiaSpaced ==
    <<"n", "v", "i", "d", "i", "a", "9", " ", "x">>
Digits ==
    <<"0", "1", "2", "3", "4", "5", "6", "7", "8", "9">>

\* The nodes of n GPUs: nvidia0 .. nvidia<n - 1>.
GpuNodeNames(n) == {NvidiaPrefix \o <<Digits[i + 1]>> : i \in 0..(n - 1)}

KernelSrcs ==
    {SrcAbsolute, SrcPlain, SrcInDir, SrcReadOnly, SrcGpuNode, SrcCtlNode, SrcSpaced}

KernelOuts == {OutAbsolute, OutPlain}

DeviceProps ==
    {[compute_version |-> v] :
        v \in {<<"7", ".", "0">>, <<"8", ".", "6", ".", "1">>}}

Codes == {<<>>, <<"x", "\n">>}

Kwargs ==
    {[attrs |-> [blend |-> b]] : b \in {<<>>, <<"b", ";">>}}
        \cup {[name |-> <<"k">>]}

\* The tree before the first call: the working directory /w with the kernel
\* sources k and d/k, a read-only /r with k, and /dev with the driver's
\* control nodes.
BaseFs ==
    (<<>>                            :> Dir(TRUE))
 @@ (<< <<"d", "e", "v">> >>          :> Dir(TRUE))
 @@ (<< <<"d", "e", "v">>, NvidiaCtl >> :> CharDevice)
 @@ (<< <<"d", "e", "v">>, NvidiaUvm >> :> CharDevice)
 @@ (<< <<"w">> >>                    :> Dir(TRUE))
 @@ (<< <<"w">>, <<"k">> >>           :> File)
 @@ (<< <<"w">>, <<"d">> >>           :> Dir(TRUE))
 @@ (<< <<"w">>, <<"d">>, <<"k">> >>  :> File)
 @@ (<< <<"r">> >>                    :> Dir(FALSE))
 @@ (<< <<"r">>, <<"k">> >>           :> File)

\* BaseFs with the entry e at each path of ps.
WithEntries(f, ps, e) == [q \in DOMAIN f \cup ps |-> IF q \in ps THEN e ELSE f[q]]

\* Up to MaxDevices GPUs, with or without a node whose name holds a blank.
Init ==
    /\ \E n \in 0..MaxDevices, spaced \in BOOLEAN :
          fs = WithEntries(BaseFs,
                           {<< <<"d", "e", "v">>, name >> :
                               name \in GpuNodeNames(n)
                                  \cup (IF spaced THEN {NvidiaSpaced} ELSE {})},
                           CharDevice)
    /\ fs0 = fs
    /\ last = [op |-> "none"]
    /\ result = Returned(0)
    /\ status = -1
    /\ repeated = FALSE

CallGetExecutionParallism ==
    \E r \in {GetExecutionParallism(fs)} :
        /\ fs' = r.fs
        /\ result' = r.result
        /\ status' = r.status
        /\ last' = [op |-> "get_execution_parallism"]
        /\ repeated' = (last' = last)
        /\ UNCHANGED fs0

\* get_compile_kernel_args(kernel_src, kernel_out, device_props): code_arch is
\* computed, the link command is run and its status dropped, the list returned.
CallGetCompileKernelArgs ==
    \E kernel_src \in KernelSrcs :
        \E linked \in {System(fs, LinkCommand(kernel_src))} :
            \E kernel_out \in KernelOuts, device_props \in DeviceProps :
                /\ fs' = linked.fs
                /\ status' = linked.status
                /\ result' = IF linked.raised THEN Raised("CalledProcessError")
                             ELSE Returned(KernelArgs(kernel_src, kernel_out,
                                                      device_props))
                /\ last' = [op |-> "get_compile_kernel_args",
                            kernel_src |-> kernel_src, kernel_out |-> kernel_out,
                            device_props |-> device_props]
                /\ repeated' = (last' = last)
                /\ UNCHANGED fs0

CallDoNativeTranslation ==
    \E code \in Codes, kwargs \in Kwargs :
        /\ result' = DoNativeTranslation(code, kwargs)
        /\ status' = -1
        /\ last' = [op |-> "do_native_translation", code |-> code, kwargs |-> kwargs]
        /\ repeated' = (last' = last)
        /\ UNCHANGED <<fs, fs0>>

Next ==
    \/ CallGetExecutionParallism
    \/ CallGetCompileKernelArgs
    \/ CallDoNativeTranslation

Spec == Init /\ [][Next]_vars

(***************************************************************************)
(* Vocabulary of the properties, stated without the operators above.       *)
(***************************************************************************)
ArchComputePrefix ==
    <<"a", "r", "c", "h", "=", "c", "o", "m", "p", "u", "t", "e", "_">>
CodeSmInfix ==
    <<",", "c", "o", "d", "e", "=", "s", "m", "_">>

DevDir == << <<"d", "e", "v">> >>

IsDigit(c) == c \in {"0", "1", "2", "3", "4", "5", "6", "7", "8", "9"}

\* name is nvidia, then one decimal digit, then any characters.
IsGpuNodeName(name) ==
    /\ Len(name) >= 7
    /\ SubSeq(name, 1, 6) = NvidiaPrefix
    /\ IsDigit(name[7])

\* The entries of /dev in f whose path matches /dev/nvidia[0-9]*.
GpuNodes(f) ==
    {p \in DOMAIN f : Len(p) = 2 /\ p[1] = DevDir[1] /\ IsGpuNodeName(p[2])}

HasBlank(s) == \E i \in 1..Len(s) : s[i] \in Whitespace

\* The number of whitespace-separated words of s.
WordCount(s) ==
    Cardinality({i \in 1..Len(s) :
                    s[i] \notin Whitespace /\ (i = 1 \/ s[i - 1] \in Whitespace)})

RECURSIVE SumWords(_)
SumWords(ps) ==
    IF ps = {} THEN 0
    ELSE LET p == CHOOSE q \in ps : TRUE
         IN  WordCount(p[2]) + SumWords(ps \ {p})

WithoutDots(s) == SelectSeq(s, LAMBDA c : c # ".")

\* The flag for compute version v.
ArchFlag(v) ==
    ArchComputePrefix \o WithoutDots(v) \o CodeSmInfix \o WithoutDots(v)

IsTranslation == last.op = "do_native_translation"
IsKernelArgs  == last.op = "get_compile_kernel_args"
IsParallism   == last.op = "get_execution_parallism"

(***************************************************************************)
(* C1.  do_native_translation(code, **kwargs) with an attrs.blend returns  *)
(* the two include lines, then attrs.blend, then one newline, then code:   *)
(* the includes are a prefix, code is a suffix.  C1_Original adds the      *)
(* length as first stated, 47 + len(blend) + 1 + len(code); the include    *)
(* text is 50 characters long, and C1_Translation states the length with   *)
(* 50.                                                                     *)
(***************************************************************************)
TranslationShape ==
    LET blend == last.kwargs["attrs"].blend
    IN  /\ ~result.raised
        /\ result.value = Includes \o blend \o <<"\n">> \o last.code
        /\ IsPrefix(Includes, result.value)
        /\ Drop(result.value, Len(result.value) - Len(last.code)) = last.code

C1_Original ==
    (IsTranslation /\ "attrs" \in DOMAIN last.kwargs) =>
        /\ TranslationShape
        /\ Len(result.value)
              = 47 + Len(last.kwargs["attrs"].blend) + 1 + Len(last.code)

C1_Translation ==
    (IsTranslation /\ "attrs" \in DOMAIN last.kwargs) =>
        /\ TranslationShape
        /\ Len(result.value)
              = 50 + Len(last.kwargs["attrs"].blend) + 1 + Len(last.code)

C1_Witness ==
    /\ IsTranslation
    /\ "attrs" \in DOMAIN last.kwargs
    /\ last.kwargs["attrs"].blend # <<>>
    /\ last.code # <<>>
    /\ ~result.raised

(***************************************************************************)
(* C2.  The list get_compile_kernel_args returns holds, right after        *)
(* '-gencode', the flag arch=compute_X,code=sm_X where X is                *)
(* compute_version with every '.' removed: the same X twice, no '.' in it. *)
(***************************************************************************)
C2_ArchFlag ==
    IsKernelArgs =>
        LET v == last.device_props.compute_version
        IN  /\ ~result.raised
            /\ \E i \in 1..(Len(result.value) - 1) :
                  /\ result.value[i] = Gencode
                  /\ result.value[i + 1] = ArchFlag(v)
            /\ \A j \in 1..Len(WithoutDots(v)) : WithoutDots(v)[j] # "."
            /\ \A i \in 1..Len(result.value) :
                  IsPrefix(ArchComputePrefix, result.value[i]) =>
                      \A j \in 1..Len(result.value[i]) : result.value[i][j] # "."

C2_Witness ==
    /\ IsKernelArgs
    /\ ~result.raised
    /\ Cardinality({j \in 1..Len(last.device_props.compute_version) :
                       last.device_props.compute_version[j] = "."}) >= 2

(***************************************************************************)
(* C3.  get_compile_kernel_args returns exactly 8 elements in the order    *)
(* nvcc, kernel_src + '.cu', --fatbin, -O2, -gencode, the arch flag, -o,   *)
(* kernel_out: the compiler input is the .cu path, never kernel_src, and   *)
(* kernel_out is the last element, unchanged.                              *)
(***************************************************************************)
ExpectedArgs ==
    <<Nvcc, last.kernel_src \o <<".", "c", "u">>, Fatbin, OptO2, Gencode,
      ArchFlag(last.device_props.compute_version), DashO, last.kernel_out>>

C3_ArgumentList ==
    IsKernelArgs =>
        /\ ~result.raised
        /\ Len(result.value) = 8
        /\ result.value = ExpectedArgs
        /\ result.value[2] # last.kernel_src
        /\ result.value[7] = DashO /\ result.value[8] = last.kernel_out

C3_Witness ==
    /\ IsKernelArgs
    /\ ~result.raised
    /\ last.kernel_out = OutPlain
    /\ last.kernel_src = SrcInDir

(***************************************************************************)
(* C4.  When get_compile_kernel_args returns, kernel_src + '.cu' is a      *)
(* symbolic link that resolves to the file kernel_src, for absolute and    *)
(* relative kernel_src alike.  Stated here for the calls the claim is most *)
(* plainly about: kernel_src names an existing file, has no blank in it,   *)
(* and ln exited with status 0.                                            *)
(***************************************************************************)
C4_LinkResolves ==
    (/\ IsKernelArgs
     /\ status = 0
     /\ ~HasBlank(last.kernel_src)
     /\ Exists(fs, last.kernel_src)) =>
        LET link == last.kernel_src \o <<".", "c", "u">>
            at   == Resolve(fs, link, FALSE)
        IN  /\ at.ok
            /\ at.path \in DOMAIN fs
            /\ fs[at.path].kind = "link"
            /\ Exists(fs, link)
            /\ Resolve(fs, link, TRUE).path = Resolve(fs, last.kernel_src, TRUE).path

C6_Original ==
    /\ IsParallism => result = GetExecutionParallism(fs0).result
    /\ IsTranslation => result = DoNativeTranslation(last.code, last.kwargs)

C6_Independent ==
    /\ (IsParallism /\ GpuNodes(fs) \subseteq GpuNodes(fs0)) =>
           result = GetExecutionParallism(fs0).result
    /\ IsTranslation => result = DoNativeTranslation(last.code, last.kwargs)

C6_Witness ==
    /\ IsParallism
    /\ GpuNodes(fs) \subseteq GpuNodes(fs0)
    /\ Append(DevDir, NvidiaCtl \o <<".", "c", "u">>) \in DOMAIN fs
    /\ Append(Cwd, <<"k", ".", "c", "u">>) \in DOMAIN fs
    /\ fs # fs0

(***************************************************************************)
(* C7.  When no path matches /dev/nvidia[0-9]* the listing fails, its      *)
(* error text is discarded, and get_execution_parallism returns 0 without  *)
(* raising; the result is always a non-negative integer.                   *)
(***************************************************************************)
C7_NoMatchIsZero ==
    IsParallism =>
        /\ ~result.raised
        /\ result.value \in Nat
        /\ GpuNodes(fs) = {} => result.value = 0

C7_Witness ==
    /\ IsParallism
    /\ GpuNodes(fs) = {}
    /\ Append(DevDir, NvidiaCtl) \in DOMAIN fs
    /\ result = Returned(0)

(***************************************************************************)
(* C8.  A failure of the ln command is not surfaced: when its exit status  *)
(* is not 0, get_compile_kernel_args raises nothing and returns the same   *)
(* list as when the link is made.                                          *)
(***************************************************************************)
C8_FailureNotSurfaced ==
    (IsKernelArgs /\ status # 0) =>
        /\ ~result.raised
        /\ result.value = ExpectedArgs

C8_Witness ==
    /\ IsKernelArgs
    /\ status # 0
    /\ last.kernel_src = <<"/", "r", "/", "k">>
    /\ ~result.raised
    /\ fs = fs0

(***************************************************************************)
(* C9.  get_compile_kernel_args with a kernel_src free of whitespace       *)
(* creates or changes no entry but kernel_src + '.cu': kernel_src,         *)
(* kernel_out and every other entry stay as they were.  The other two      *)
(* functions change no entry at all.                                       *)
(***************************************************************************)
LinkPlace(f, kernel_src) == Resolve(f, kernel_src \o <<".", "c", "u">>, FALSE).path

====
